---- MODULE Spec2Model ----
(***************************************************************************)
(* A model of quimb/gen/rand.py: the generators of random matrices, kets,  *)
(* Haar unitaries, Haar state streams, mixed states and product states.    *)
(*                                                                         *)
(* Random draws are inputs chosen with \E.  Matrices are kept by shape,     *)
(* non-zero pattern and scale; real numbers are kept exactly, as a          *)
(* rational n/m or as the square root of one.                               *)
(***************************************************************************)
EXTENDS Integers, Sequences, FiniteSets, TLC

VARIABLES
    call,    \* the last completed call of a stateless function and its outcome
    gen,     \* the generator object made by gen_rand_haar_states
    log,     \* what the generator did so far: unitaries sampled, states yielded
    req      \* the outcome of the last next() on the generator

vars == <<call, gen, log, req>>

(***************************************************************************)
(* Bounds of the model.                                                    *)
(***************************************************************************)
MaxDim == 22        \* largest d given to rand_matrix and rand_ket
MaxSymDim == 3      \* largest d of a matrix kept entry by entry
MaxStreamDim == 3   \* largest d of a Haar state stream
MaxReps == 7        \* largest reps of a Haar state stream
MaxExtra == 2       \* next() calls made on an exhausted stream
MaxQubits == 4      \* largest n given to rand_product_state
MaxMixDim == 6      \* largest d given to rand_mix

(***************************************************************************)
(* Exact numbers.  [kind |-> "rat", n, m] is n/m, [kind |-> "root", n, m]  *)
(* is sqrt(n/m), and kind "None" is Python's None.  m > 0 throughout.      *)
(***************************************************************************)
None == [kind |-> "None", n |-> 0, m |-> 1]
Rat(n, m) == [kind |-> "rat", n |-> n, m |-> m]
Root(n, m) == [kind |-> "root", n |-> n, m |-> m]

IsNone(x) == x.kind = "None"

\* the square of a non-negative number, as a pair <<numerator, denominator>>
Sq(x) == IF x.kind = "rat" THEN <<x.n * x.n, x.m * x.m>> ELSE <<x.n, x.m>>

\* equality and order of numbers (negative numbers occur only as rationals)
NumEq(x, y) ==
    IF x.kind = "rat" /\ y.kind = "rat"
    THEN x.n * y.m = y.n * x.m
    ELSE Sq(x)[1] * Sq(y)[2] = Sq(y)[1] * Sq(x)[2]

NumLt(x, y) ==
    IF x.kind = "rat" /\ y.kind = "rat"
    THEN x.n * y.m < y.n * x.m
    ELSE Sq(x)[1] * Sq(y)[2] < Sq(y)[1] * Sq(x)[2]

\* Python's min(a, b): b only when b < a
PyMin(a, b) == IF NumLt(b, a) THEN b ELSE a

\* x / k and x * k for an integer k > 0
DivInt(x, k) ==
    IF x.kind = "rat" THEN Rat(x.n, x.m * k) ELSE Root(x.n, x.m * k * k)
MulInt(x, k) ==
    IF x.kind = "rat" THEN Rat(x.n * k, x.m) ELSE Root(x.n * k * k, x.m)

\* x ** 0.5 of a rational x >= 0
PySqrt(x) == Root(x.n, x.m)

\* 10/d of line 17, d # 0
TenOver(d) == IF d > 0 THEN Rat(10, d) ELSE Rat(0 - 10, 0 - d)

Half == Rat(1, 2)

\* Python's round() of p/q, p >= 0, q > 0: to nearest, ties to even
RoundHalfEven(p, q) ==
    LET fl == p \div q
        rem == p - fl * q
    IN  IF 2 * rem < q THEN fl
        ELSE IF 2 * rem > q THEN fl + 1
        ELSE IF fl % 2 = 0 THEN fl ELSE fl + 1

\* round(x * cells) for a number x in [0, 1]
RoundTimes(x, cells) ==
    IF x.kind = "rat" THEN RoundHalfEven(x.n * cells, x.m)
    ELSE \* x * cells = sqrt(n * cells^2 / m); k is its rounding
         LET a == 4 * x.n * cells * cells
             Near(k) == /\ (2 * k - 1) * (2 * k - 1) * x.m <= a
                        /\ a <= (2 * k + 1) * (2 * k + 1) * x.m
             ks == {k \in 0..cells : (k = 0 /\ a <= x.m) \/ (k > 0 /\ Near(k))}
         IN  IF Cardinality(ks) = 1 THEN CHOOSE k \in ks : TRUE
             ELSE CHOOSE k \in ks : k % 2 = 0

(***************************************************************************)
(* scipy.sparse.random(rows, cols, density): the number of stored entries, *)
(* or a ValueError for a density outside [0, 1] or a negative shape.       *)
(***************************************************************************)
SpRandomOk(rows, cols, density) ==
    /\ rows >= 0 /\ cols >= 0
    /\ ~NumLt(density, Rat(0, 1))
    /\ ~NumLt(Rat(1, 1), density)

SpRandomNnz(rows, cols, density) == RoundTimes(density, rows * cols)

(***************************************************************************)
(* rand_matrix.  The outcome is an error, or a matrix kept as its shape,   *)
(* the density it was resolved to, its number of stored entries, the       *)
(* square of the divisor applied to every entry (None when none was), how  *)
(* many times the entries were divided, and how many Gaussian values were  *)
(* drawn for it.                                                           *)
(***************************************************************************)
Failed(e) ==
    [err |-> e, rows |-> 0, cols |-> 0, sparse |-> FALSE, density |-> None,
     nnz |-> 0, div2 |-> None, ndiv |-> 0, draws |-> 0]

Matrix(d, sparse, density, nnz, scaled, draws) ==
    [err |-> "none", rows |-> d, cols |-> d, sparse |-> sparse,
     density |-> density, nnz |-> nnz,
     div2 |-> IF scaled THEN MulInt(density, 2 * d) ELSE None,
     ndiv |-> IF scaled THEN 1 ELSE 0, draws |-> draws]

\* the sparse default without the 10-per-row rule: always one half
SparseDensityUncapped(d, density) ==
    IF IsNone(density) THEN Half ELSE density

\* lines 16-19: the density used in sparse mode
SparseDensity(d, density) ==
    IF IsNone(density) THEN PyMin(Half, TenOver(d)) ELSE density

\* lines 20-21: the density used in dense mode
DenseDensity(d, density) == Rat(1, 1)

\* lines 24-25: whether the entries are divided
Scales(scaled) == scaled

\* Where the libraries decide: 10/d raises ZeroDivisionError for d = 0;
\* sp.random refuses a density outside [0, 1] and np.random.randn a
\* negative shape (ValueError); dividing a sparse matrix in place by the
\* float 0.0 (d = 0, scaled) raises ZeroDivisionError, while a dense 0 x 0
\* array divides to itself.
rand_matrix(d, scaled, sparse, density) ==
    IF sparse
    THEN IF IsNone(density) /\ d = 0 THEN Failed("ZeroDivisionError")
         ELSE LET dens == SparseDensity(d, density)
              IN  IF ~SpRandomOk(d, d, dens) THEN Failed("ValueError")
                  ELSE IF Scales(scaled) /\ d = 0
                       THEN Failed("ZeroDivisionError")
                  ELSE Matrix(d, TRUE, dens, SpRandomNnz(d, d, dens),
                              Scales(scaled), 2 * SpRandomNnz(d, d, dens))
    ELSE IF d < 0 THEN Failed("ValueError")
         ELSE Matrix(d, FALSE, DenseDensity(d, density), d * d,
                     Scales(scaled), 2 * d * d)

(***************************************************************************)
(* Matrices entry by entry.  An entry is the set of the terms it sums: a   *)
(* stored Gaussian value <<i, j, "v">>, its conjugate <<i, j, "c">>, or a  *)
(* product <<t1, t2>> of two of these.  The empty set is an exact zero.    *)
(***************************************************************************)
Cells(d) == (1..d) \X (1..d)

\* the patterns of k stored entries sp.random can select (all cells when dense)
Patterns(m) ==
    IF m.sparse THEN {p \in SUBSET Cells(m.rows) : Cardinality(p) = m.nnz}
    ELSE {Cells(m.rows)}

\* the matrix whose stored entries are the cells of pat
Raw(d, pat) ==
    [c \in Cells(d) |-> IF c \in pat THEN {<<c[1], c[2], "v">>} ELSE {}]

IsProduct(t) == Len(t) = 2

ConjValue(t) == <<t[1], t[2], IF t[3] = "v" THEN "c" ELSE "v">>

Conj(t) == IF IsProduct(t) THEN <<ConjValue(t[2]), ConjValue(t[1])>>
           ELSE ConjValue(t)

\* the transpose, without conjugation
Transpose(A, d) == [c \in Cells(d) |-> A[<<c[2], c[1]>>]]

\* .H: the conjugate transpose
Adjoint(A, d) == [c \in Cells(d) |-> {Conj(t) : t \in A[<<c[2], c[1]>>]}]

MatAdd(A, B, d) == [c \in Cells(d) |-> A[c] \cup B[c]]

\* A @ B
MatMul(A, B, d) ==
    [c \in Cells(d) |->
        UNION {{<<t1, t2>> : t1 \in A[<<c[1], k>>], t2 \in B[<<k, c[2]>>]} :
               k \in 1..d}]

\* the terms of the trace
TraceTerms(A, d) == UNION {A[<<i, i>>] : i \in 1..d}

\* lines 34 and 46: the density when it is None and sparse is set
DefaultDensity(d, sparse, density) ==
    IF IsNone(density) /\ sparse THEN PyMin(Half, TenOver(d)) ELSE density

\* the outcome of a builder: an error, or a matrix and how it was scaled
Broken(e) == [err |-> e, rows |-> 0, cols |-> 0, entries |-> <<>>,
              raw |-> Failed(e), norm |-> "none"]

Built(m, entries, norm) ==
    [err |-> "none", rows |-> m.rows, cols |-> m.cols, entries |-> entries,
     raw |-> m, norm |-> norm]

(***************************************************************************)
(* rand_herm, lines 29-38.  pat is the pattern sp.random selects.          *)
(***************************************************************************)
\* line 37: herm += herm.H
Symmetrize(A, d) == MatAdd(A, Adjoint(A, d), d)

rand_herm(d, sparse, density, pat) ==
    IF IsNone(density) /\ sparse /\ d = 0 THEN Broken("ZeroDivisionError")
    ELSE LET dens == DefaultDensity(d, sparse, density)
         IN  IF IsNone(dens) THEN Broken("TypeError")   \* None / 2
             ELSE LET m == rand_matrix(d, TRUE, sparse, DivInt(dens, 2))
                  IN  IF m.err # "none" THEN Broken(m.err)
                      ELSE Built(m, Symmetrize(Raw(d, pat), d), "none")

(***************************************************************************)
(* rand_pos, lines 41-49, and rand_rho, lines 52-57.                       *)
(***************************************************************************)
\* line 49: pos @ pos.H
SelfAdjointSquare(A, d) == MatMul(A, Adjoint(A, d), d)

rand_pos(d, sparse, density, pat) ==
    IF IsNone(density) /\ sparse /\ d = 0 THEN Broken("ZeroDivisionError")
    ELSE LET dens == DefaultDensity(d, sparse, density)
         IN  IF IsNone(dens) THEN Broken("TypeError")   \* None / d
             ELSE IF d = 0 THEN Broken("ZeroDivisionError")
             ELSE LET m == rand_matrix(d, TRUE, sparse,
                                       PySqrt(DivInt(dens, d)))
                  IN  IF m.err # "none" THEN Broken(m.err)
                      ELSE Built(m, SelfAdjointSquare(Raw(d, pat), d), "none")

\* core.nmlz on an operator: divide by the trace
nmlz_op(r) ==
    IF r.err # "none" THEN r
    ELSE [r EXCEPT !.norm = IF TraceTerms(r.entries, r.rows) = {}
                            THEN "nan" ELSE "trace1"]

rand_rho(d, sparse, density, pat) == nmlz_op(rand_pos(d, sparse, density, pat))

\* the patterns the raw sample of a builder's call can have
BuilderPatterns(d, sparse, rawDensity) ==
    IF IsNone(rawDensity) \/ d < 1 THEN {{}}
    ELSE LET m == rand_matrix(d, TRUE, sparse, rawDensity)
         IN  IF m.err # "none" THEN {{}} ELSE Patterns(m)

(***************************************************************************)
(* rand_ket, lines 60-70.  The ket is kept as its length, its number of    *)
(* stored entries and what nmlz made of it.                                *)
(***************************************************************************)
\* core.nmlz on a ket: divide by the Euclidean norm
nmlz_ket(nnz) == IF nnz = 0 THEN "nan" ELSE "unit"

\* lines 64-69: the entries that hold a sampled value
KetEntries(d, sparse, density) ==
    IF sparse THEN SpRandomNnz(d, 1, density) ELSE d

rand_ket(d, sparse, density) ==
    IF sparse /\ ~SpRandomOk(d, 1, density)
    THEN [err |-> "ValueError", rows |-> 0, cols |-> 0, nnz |-> 0,
          norm |-> "none"]
    ELSE [err |-> "none", rows |-> d, cols |-> 1,
          nnz |-> KetEntries(d, sparse, density),
          norm |-> nmlz_ket(KetEntries(d, sparse, density))]

(***************************************************************************)
(* rand_uni, lines 73-81.  qrOut is what np.linalg.qr returns for the raw  *)
(* sample: an error, or factors Q and R with the set of the indices i at   *)
(* which R[i, i] is exactly zero.                                          *)
(***************************************************************************)
\* An empty input is refused (LinAlgError) or factored to empty factors,
\* as the numpy at hand has it.  A zero on R's diagonal is what a singular
\* raw sample gives.
QrOutcomes(d) ==
    IF d = 0
    THEN {[err |-> "LinAlgError", zero |-> {}], [err |-> "none", zero |-> {}]}
    ELSE {[err |-> "none", zero |-> z] : z \in SUBSET (1..d)}

\* line 80: r / np.abs(r), entry i
Phase(zero, i) == IF i \in zero THEN "nan" ELSE "unit"

NoUnitary(e) == [err |-> e, rows |-> 0, cols |-> 0, zero |-> {},
                 phase |-> <<>>, columns |-> <<>>, draws |-> 0]

rand_uni(d, qrOut) ==
    LET m == rand_matrix(d, TRUE, FALSE, None)
    IN  IF m.err # "none" THEN NoUnitary(m.err)
        ELSE IF qrOut.err # "none"
             THEN [NoUnitary(qrOut.err) EXCEPT !.draws = m.draws]
        ELSE [err |-> "none", rows |-> d, cols |-> d, zero |-> qrOut.zero,
              phase |-> [i \in 1..d |-> Phase(qrOut.zero, i)],
              \* line 81, rdmul(q, r): column j of Q times r[j]
              columns |-> [j \in 1..d |->
                              [q |-> j, by |-> Phase(qrOut.zero, j)]],
              draws |-> m.draws]

(***************************************************************************)
(* rand_mix, lines 101-109.                                                *)
(***************************************************************************)
\* np.random.randint(low, high): the values it can return
RandInt(low, high) == low..(high - 1)

\* the draw with its lower end at 1
AuxDimsFromOne(d) == RandInt(1, d + 1)

\* line 107: the auxiliary dimensions that can be drawn
AuxDims(d) == RandInt(2, d + 1)

\* core.ptr(p, dims, keep): the reduced state of subsystem keep (0-based)
ptr(psi, dims, keep) ==
    [rows |-> dims[keep + 1], cols |-> dims[keep + 1],
     traced |-> {i \in 0..(Len(dims) - 1) : i # keep}]

\* line 108: the length of the joint ket
JointDim(d, m) == d * m

rand_mix(d, m) ==
    IF AuxDims(d) = {}
    THEN [err |-> "ValueError", m |-> 0,
          ket |-> [err |-> "unsampled", rows |-> 0, cols |-> 0, nnz |-> 0,
                   norm |-> "none"],
          dims |-> <<>>, keep |-> 0, rows |-> 0, cols |-> 0, traced |-> {}]
    ELSE LET psi == rand_ket(JointDim(d, m), FALSE, Rat(1, 100))
             dims == <<d, m>>
             red == ptr(psi, dims, 0)
         IN  [err |-> "none", m |-> m, ket |-> psi, dims |-> dims, keep |-> 0,
              rows |-> red.rows, cols |-> red.cols, traced |-> red.traced]

(***************************************************************************)
(* rand_product_state, lines 112-125.  rnd is the sequence of the values   *)
(* np.random.rand() returns, in the order of the calls.                    *)
(***************************************************************************)
\* lines 118-124: the i-th qubit the generator yields (i from 1)
PureQubit(rnd, i) ==
    [len |-> 2, u |-> rnd[2 * i - 1], v |-> rnd[2 * i], sampled |-> i]

\* the qubits handed over last-sampled first
QubitsReversed(n, rnd) ==
    [i \in 1..(IF n > 0 THEN n ELSE 0) |-> PureQubit(rnd, n + 1 - i)]

\* lines 116-117: the qubits in the order the generator yields them
gen_rand_pure_qubits(n, rnd) ==
    [i \in 1..(IF n > 0 THEN n ELSE 0) |-> PureQubit(rnd, i)]

RECURSIVE ProductLen(_)
ProductLen(ops) ==
    IF ops = <<>> THEN 1 ELSE ops[1].len * ProductLen(Tail(ops))

\* core.kron(*ops): the tensor product, left to right; of nothing, the scalar 1
kron(ops) ==
    [len |-> ProductLen(ops), factors |-> ops, scalar |-> ops = <<>>]

rand_product_state(n, rnd) == kron(gen_rand_pure_qubits(n, rnd))

(***************************************************************************)
(* Inputs.                                                                 *)
(***************************************************************************)
DensityArgs == {None, Rat(1, 100), Rat(1, 4), Rat(1, 2), Rat(1, 1)}
MatrixDims == (0 - 1)..MaxDim
SymDims == 1..MaxSymDim
\* rand_ket's density defaults to 0.01 and is never None
KetDensityArgs == DensityArgs \ {None}
\* two values np.random.rand() can return, 0 and 1/2, as halves
RandValues == {0, 1}

Idle == [fn |-> "none"]

\* no generator yet; u is the unitary bound to the generator's variable u
NoGen == [state |-> "none", d |-> 0, reps |-> 0, rep |-> 0, uid |-> 0,
          u |-> NoUnitary("unbound"), extra |-> 0]

Init ==
    /\ call = Idle
    /\ gen = NoGen
    /\ log = <<>>
    /\ req = "none"

CallRandMatrix ==
    \E d \in MatrixDims, scaled \in BOOLEAN, sparse \in BOOLEAN,
       density \in DensityArgs :
        /\ call = Idle
        /\ call' = [fn |-> "rand_matrix",
                    args |-> [d |-> d, scaled |-> scaled, sparse |-> sparse,
                              density |-> density],
                    out |-> rand_matrix(d, scaled, sparse, density)]
        /\ UNCHANGED <<gen, log, req>>

CallRandHerm ==
    \E d \in SymDims, sparse \in BOOLEAN, density \in DensityArgs :
        LET dens == DefaultDensity(d, sparse, density)
            rawDensity == IF IsNone(dens) THEN None ELSE DivInt(dens, 2)
        IN  \E pat \in BuilderPatterns(d, sparse, rawDensity) :
                /\ call = Idle
                /\ call' = [fn |-> "rand_herm",
                            args |-> [d |-> d, sparse |-> sparse,
                                      density |-> density],
                            out |-> rand_herm(d, sparse, density, pat)]
                /\ UNCHANGED <<gen, log, req>>

CallRandRho ==
    \E d \in SymDims, sparse \in BOOLEAN, density \in DensityArgs :
        LET dens == DefaultDensity(d, sparse, density)
            rawDensity == IF IsNone(dens) THEN None
                          ELSE PySqrt(DivInt(dens, d))
        IN  \E pat \in BuilderPatterns(d, sparse, rawDensity) :
                /\ call = Idle
                /\ call' = [fn |-> "rand_rho",
                            args |-> [d |-> d, sparse |-> sparse,
                                      density |-> density],
                            out |-> rand_rho(d, sparse, density, pat)]
                /\ UNCHANGED <<gen, log, req>>

CallRandKet ==
    \E d \in 1..MaxDim, sparse \in BOOLEAN, density \in KetDensityArgs :
        /\ call = Idle
        /\ call' = [fn |-> "rand_ket",
                    args |-> [d |-> d, sparse |-> sparse, density |-> density],
                    out |-> rand_ket(d, sparse, density)]
        /\ UNCHANGED <<gen, log, req>>

CallRandUni ==
    \E d \in (0 - 1)..MaxSymDim :
        \E qrOut \in QrOutcomes(IF d < 0 THEN 0 ELSE d) :
            /\ call = Idle
            /\ call' = [fn |-> "rand_uni", args |-> [d |-> d],
                        out |-> rand_uni(d, qrOut)]
            /\ UNCHANGED <<gen, log, req>>

CallRandMix ==
    \E d \in 1..MaxMixDim :
        \E m \in (IF AuxDims(d) = {} THEN {0} ELSE AuxDims(d)) :
            /\ call = Idle
            /\ call' = [fn |-> "rand_mix", args |-> [d |-> d],
                        out |-> rand_mix(d, m)]
            /\ UNCHANGED <<gen, log, req>>

CallRandProductState ==
    \E n \in 0..MaxQubits :
        \E rnd \in [1..(2 * n) -> RandValues] :
            /\ call = Idle
            /\ call' = [fn |-> "rand_product_state", args |-> [n |-> n],
                        rnd |-> rnd, out |-> rand_product_state(n, rnd)]
            /\ UNCHANGED <<gen, log, req>>

\* the caller drops the result; every function can be called again
Discard ==
    /\ call # Idle
    /\ call' = Idle
    /\ UNCHANGED <<gen, log, req>>

\* the samplers: rand_matrix, rand_ket, rand_uni, rand_mix, rand_product_state
NextCalls ==
    \/ Discard
    \/ CallRandMatrix
    \/ CallRandKet
    \/ CallRandUni
    \/ CallRandMix
    \/ CallRandProductState

SpecCalls == Init /\ [][NextCalls]_vars

\* the builders of structured matrices, kept entry by entry
NextBuilders ==
    \/ Discard
    \/ CallRandHerm
    \/ CallRandRho

SpecBuilders == Init /\ [][NextBuilders]_vars

(***************************************************************************)
(* gen_rand_haar_states, lines 89-98, as the generator object Python makes *)
(* of it.  log records each unitary sampled and each state yielded.        *)
(***************************************************************************)
Sampled(uid, rep) == [ev |-> "sample", uid |-> uid, col |-> 0, rep |-> rep]
Yielded(uid, col, rep) == [ev |-> "yield", uid |-> uid, col |-> col, rep |-> rep]

Samples == SelectSeq(log, LAMBDA e : e.ev = "sample")
Yields == SelectSeq(log, LAMBDA e : e.ev = "yield")

\* line 95
Cyc(rep, d) == rep % d

\* a unitary sampled for the first state only
ResamplesOnce(rep, d) == rep = 0

\* line 96: whether a unitary is sampled before the yield
Resamples(rep, d) == Cyc(rep, d) = 0

\* a range that runs one value too far
InRangeInclusive(rep, reps) == rep <= reps

\* line 94: whether range(reps) still has the value rep
InRange(rep, reps) == rep < reps

\* calling gen_rand_haar_states(d, reps) runs none of its body
StreamCreate ==
    \E d \in 1..MaxStreamDim, reps \in 0..MaxReps :
        /\ gen.state = "none"
        /\ gen' = [NoGen EXCEPT !.state = "created", !.d = d, !.reps = reps]
        /\ UNCHANGED <<call, log, req>>

\* next() on the generator: run the body to the next yield or to its end
StreamNext ==
    /\ gen.state \in {"created", "suspended"}
    /\ LET rep == IF gen.state = "created" THEN 0 ELSE gen.rep + 1
       IN  IF ~InRange(rep, gen.reps)
           THEN /\ gen' = [gen EXCEPT !.state = "done"]
                /\ req' = "StopIteration"
                /\ UNCHANGED log
           ELSE IF Resamples(rep, gen.d)
           THEN \E qrOut \in QrOutcomes(gen.d) :
                    LET uid == Len(Samples) + 1
                    IN  /\ gen' = [gen EXCEPT !.state = "suspended",
                                              !.rep = rep, !.uid = uid,
                                              !.u = rand_uni(gen.d, qrOut)]
                        /\ log' = log \o <<Sampled(uid, rep),
                                           Yielded(uid, Cyc(rep, gen.d), rep)>>
                        /\ req' = "state"
           ELSE /\ gen' = [gen EXCEPT !.state = "suspended", !.rep = rep]
                /\ log' = Append(log, Yielded(gen.uid, Cyc(rep, gen.d), rep))
                /\ req' = "state"
    /\ UNCHANGED call

\* next() on a generator that has ended
StreamNextDone ==
    /\ gen.state = "done"
    /\ gen.extra < MaxExtra
    /\ gen' = [gen EXCEPT !.extra = @ + 1]
    /\ req' = "StopIteration"
    /\ UNCHANGED <<call, log>>

NextStream == StreamCreate \/ StreamNext \/ StreamNextDone

SpecStream == Init /\ [][NextStream]_vars

Next == NextCalls \/ NextBuilders \/ NextStream

Spec == Init /\ [][Next]_vars

(***************************************************************************)
(* Properties of the Haar state stream, under SpecStream.                  *)
(***************************************************************************)
\* where emission k sits in the log
PosOfYield(k) == CHOOSE i \in 1..Len(log) : log[i].ev = "yield" /\ log[i].rep = k

\* the unitary that is current at log position i: the last one sampled before
CurrentAt(i) ==
    LET js == {j \in 1..(i - 1) : log[j].ev = "sample"}
    IN  IF js = {} THEN 0
        ELSE log[CHOOSE j \in js : \A j2 \in js : j2 <= j].uid

\* C1: the k-th state emitted is column k mod d of the unitary current at
\* that moment; a fresh unitary is sampled exactly at the indices k with
\* k mod d = 0, right before emission k; so a stream of 2d states samples
\* twice, the second time between emissions d-1 and d, and emissions k and
\* k+d come from different unitaries.
C1_ColumnRecycling ==
    gen.state # "none" =>
        LET d == gen.d
            n == Len(Yields)
            sampleAt == {i \in 1..Len(log) : log[i].ev = "sample"}
        IN  /\ \A k \in 0..(n - 1) :
                /\ Yields[k + 1].rep = k
                /\ Yields[k + 1].col = k % d
                /\ Yields[k + 1].uid = CurrentAt(PosOfYield(k))
                /\ Yields[k + 1].uid # 0
            /\ \A i \in 1..Len(Samples) : Samples[i].uid = i
            /\ {log[i].rep : i \in sampleAt} = {k \in 0..(n - 1) : k % d = 0}
            /\ Len(Samples) = Cardinality({k \in 0..(n - 1) : k % d = 0})
            /\ \A i \in sampleAt :
                /\ i < Len(log)
                /\ log[i + 1].ev = "yield"
                /\ log[i + 1].rep = log[i].rep
            /\ (gen.reps = 2 * d /\ n = 2 * d) =>
                /\ Len(Samples) = 2
                /\ Samples[2].rep = d
                /\ \E i \in sampleAt :
                    /\ log[i].uid = 2
                    /\ i > 1
                    /\ log[i - 1].ev = "yield" /\ log[i - 1].rep = d - 1
                    /\ log[i + 1].ev = "yield" /\ log[i + 1].rep = d
            /\ \A k \in 0..(n - 1) :
                k + d < n => Yields[k + 1].uid # Yields[k + d + 1].uid
            /\ gen.state = "suspended" =>
                /\ gen.uid = Yields[n].uid
                /\ gen.rep = n - 1
                /\ gen.u.err = "none"
                /\ Yields[n].col + 1 \in DOMAIN gen.u.columns
                /\ gen.u.columns[Yields[n].col + 1].q = ((n - 1) % d) + 1

\* a stream of 2d states, d >= 2, read to its last state
C1_Witness ==
    /\ gen.state = "suspended"
    /\ gen.d >= 2
    /\ gen.reps = 2 * gen.d
    /\ Len(Yields) = 2 * gen.d

CeilDiv(a, b) == (a + b - 1) \div b

\* C2: the stream is lazy, finite and non-restartable: nothing is sampled
\* before the first request; a request produces at most one state; exactly
\* count states are produced and ceil(count / d) unitaries sampled by a
\* stream read to its end (none of either for count = 0); once the stream
\* has ended every request yields nothing and samples nothing.
C2_LazyFiniteOnce ==
    /\ [](/\ gen.state \in {"none", "created"} => log = <<>>
          /\ gen.reps = 0 => log = <<>>
          /\ Len(Yields) <= gen.reps
          /\ gen.state = "suspended" => Len(Yields) = gen.rep + 1
          /\ gen.state = "done" =>
                /\ Len(Yields) = gen.reps
                /\ Len(Samples) = CeilDiv(gen.reps, gen.d))
    /\ [][/\ Len(Yields') <= Len(Yields) + 1
          /\ Len(Samples') <= Len(Samples) + 1
          /\ (req' = "state" /\ gen' # gen) => Len(Yields') = Len(Yields) + 1
          /\ gen.state = "done" =>
                /\ gen'.state = "done"
                /\ log' = log
                /\ req' = "StopIteration"]_vars

\* a stream whose count is no multiple of d, asked again after its end
C2_Witness ==
    /\ gen.state = "done"
    /\ gen.extra > 0
    /\ gen.reps > gen.d
    /\ gen.reps % gen.d # 0
    /\ Len(Yields) = gen.reps

(***************************************************************************)
(* Properties of the stateless functions: C3 and C4 under SpecBuilders,    *)
(* the others under SpecCalls.                                             *)
(***************************************************************************)
IsHermitian(A, d) == \A c \in Cells(d) : A[c] = {Conj(t) : t \in A[<<c[2], c[1]>>]}

\* C3: for d >= 2, rand_herm returns a d x d matrix equal to its conjugate
\* transpose, whatever sparse is and whether density is None or given.
C3_HermitianForAllArguments ==
    (call.fn = "rand_herm" /\ call.args.d >= 2) =>
        /\ call.out.err = "none"
        /\ call.out.rows = call.args.d
        /\ call.out.cols = call.args.d
        /\ IsHermitian(call.out.entries, call.args.d)

\* C4: for d >= 1, rand_rho completes without an error, the default
\* arguments included, and returns the trace-normalized P P^H of a d x d
\* raw sample P: d x d, Hermitian, positive-semidefinite, of trace 1.
C4_DensityMatrixCompletes ==
    (call.fn = "rand_rho" /\ call.args.d >= 1) =>
        /\ call.out.err = "none"
        /\ call.out.rows = call.args.d
        /\ call.out.cols = call.args.d
        /\ IsHermitian(call.out.entries, call.args.d)
        /\ \A c \in Cells(call.args.d) : \A t \in call.out.entries[c] :
              \E k \in 1..call.args.d :
                  t = <<(<<c[1], k, "v">>), (<<c[2], k, "c">>)>>
        /\ call.out.norm = "trace1"

C6_KetHasUnitNorm ==
    (/\ call.fn = "rand_ket"
     /\ call.args.d >= 1
     /\ (~call.args.sparse \/ call.args.density = Rat(1, 100))) =>
        /\ call.out.err = "none"
        /\ call.out.rows = call.args.d
        /\ call.out.cols = 1
        /\ call.out.nnz >= 1
        /\ call.out.norm = "unit"

RECURSIVE Pow2(_)
Pow2(n) == IF n = 0 THEN 1 ELSE 2 * Pow2(n - 1)

\* C7: rand_product_state samples exactly n qubits of length 2, one after
\* the other, and gives them to kron in the order sampled, so the result
\* has length 2^n; for n = 0 it is the scalar 1.
C7_ProductStateOrder ==
    call.fn = "rand_product_state" =>
        LET n == call.args.n
            out == call.out
        IN  /\ Len(out.factors) = n
            /\ \A i \in 1..n :
                /\ out.factors[i].len = 2
                /\ out.factors[i].u = call.rnd[2 * i - 1]
                /\ out.factors[i].v = call.rnd[2 * i]
            /\ out.len = Pow2(n)
            /\ out.scalar <=> n = 0
            /\ n = 0 => out.len = 1

\* three qubits whose draws tell them apart
C7_Witness ==
    /\ call.fn = "rand_product_state"
    /\ call.args.n = 3
    /\ call.rnd[1] # call.rnd[5]
    /\ call.out.len = 8

\* C8: rand_matrix with d < 1, dense or sparse, and rand_uni with d < 2
\* report an error before any random value is drawn and return no matrix.
C8_InvalidDimensionRejected ==
    (\/ call.fn = "rand_matrix" /\ call.args.d < 1
     \/ call.fn = "rand_uni" /\ call.args.d < 2) =>
        /\ call.out.err # "none"
        /\ call.out.draws = 0

\* C9: when some diagonal entry of R is zero rand_uni reports an error (or
\* resamples) and returns nothing built from 0 / |0|; when it returns, every
\* entry of the correction has magnitude 1 and the result is Q right-
\* multiplied by that diagonal.
C9_PhaseGuarded ==
    (call.fn = "rand_uni" /\ call.args.d >= 1) =>
        /\ call.out.err = "none" =>
            /\ call.out.zero = {}
            /\ \A i \in 1..call.args.d :
                /\ call.out.phase[i] = "unit"
                /\ call.out.columns[i] = [q |-> i, by |-> "unit"]

\* C10: rand_matrix resolves the density, in sparse mode, to min(0.5, 10/d)
\* when none is given (0.5 for d <= 20, 10/d for d > 20) and to the given
\* one otherwise, and to 1 in dense mode; with scaled set every entry is
\* divided once by sqrt(2 d density), and not at all without it.
C10_DensityAndScale ==
    (call.fn = "rand_matrix" /\ call.out.err = "none") =>
        LET a == call.args
            out == call.out
            resolved ==
                IF ~a.sparse THEN Rat(1, 1)
                ELSE IF ~IsNone(a.density) THEN a.density
                ELSE IF a.d <= 20 THEN Rat(1, 2) ELSE Rat(10, a.d)
        IN  /\ ~IsNone(out.density)
            /\ NumEq(out.density, resolved)
            /\ a.sparse => out.nnz = RoundTimes(resolved, a.d * a.d)
            /\ a.scaled =>
                /\ out.ndiv = 1
                /\ ~IsNone(out.div2)
                /\ NumEq(out.div2, Rat(2 * a.d * resolved.n, resolved.m))
            /\ ~a.scaled => (out.ndiv = 0 /\ IsNone(out.div2))

\* a scaled sparse matrix of more than 20 rows with no density given
C10_Witness ==
    /\ call.fn = "rand_matrix"
    /\ call.out.err = "none"
    /\ call.args.d > 20
    /\ call.args.sparse
    /\ call.args.scaled
    /\ IsNone(call.args.density)
    /\ call.out.ndiv = 1
====
